---- MODULE Spec2Model ----
(***************************************************************************)
(* Model of lib/cli/interactive-setup/service.js: the interactive-setup    *)
(* step that scaffolds a new service (isApplicable and run).               *)
(*                                                                         *)
(* JavaScript strings are modelled as sequences of one-character strings,  *)
(* so that trim(), the naming regular expression, path joins and slice()   *)
(* are computed as the code computes them.  null/undefined/"" are the      *)
(* empty sequence (all three are falsy for every test the code makes).     *)
(* run() is an async function: every await whose result the environment    *)
(* decides (a prompt, a collaborator, a subprocess) is one action.         *)
(***************************************************************************)
EXTENDS Naturals, Integers, Sequences, FiniteSets, TLC

VARIABLES
  pc,           \* position of run(): "idle", an await point, or "done"
  options,      \* context.options: function from the keys present to values
  ctx,          \* context fields cwd, serviceDir, configurationFilename, configuration
  fs,           \* the filesystem: set of absolute paths that exist
  result,       \* how the last run() ended: none / return / throw + error
  calls,        \* prompts, collaborators and console messages used by this run
  projectType,  \* local of run()
  projectName,  \* local of run()
  isConfirmed,  \* local of run(): the answer to the confirmation prompt
  err,          \* the error bound by the catch block that last ran in run()
  applicable,   \* outcome of the last isApplicable() call
  atCall,       \* snapshot of ctx and fs taken when run() was called
  prev          \* the preceding run() of this session, if it succeeded

vars == <<pc, options, ctx, fs, result, calls, projectType, projectName,
          isConfirmed, err, applicable, atCall, prev>>

----------------------------------------------------------------------------
(* Bounds of the model *)

\* typed / passed project names range over all strings up to this length
MaxNameLen == 2

(* Program constants *)

\* the quantifier {0,100} of the naming pattern
MaxNameTail == 100

----------------------------------------------------------------------------
(* Strings *)

Null == <<>>

Letters ==
  {"a","b","c","d","e","f","g","h","i","j","k","l","m","n","o","p","q","r","s",
   "t","u","v","w","x","y","z","A","B","C","D","E","F","G","H","I","J","K","L",
   "M","N","O","P","Q","R","S","T","U","V","W","X","Y","Z"}

Digits == {"0","1","2","3","4","5","6","7","8","9"}

WhiteSpace == {" ", "\t", "\n", "\r"}

RECURSIVE TrimStart(_)
TrimStart(s) ==
  IF s # <<>> /\ Head(s) \in WhiteSpace THEN TrimStart(Tail(s)) ELSE s

RECURSIVE TrimEnd(_)
TrimEnd(s) ==
  IF s # <<>> /\ s[Len(s)] \in WhiteSpace
  THEN TrimEnd(SubSeq(s, 1, Len(s) - 1))
  ELSE s

\* String.prototype.trim
Trim(s) == TrimEnd(TrimStart(s))

\* variant: the pattern also lets "_" through and has no length limit
isValidServiceNameLax(s) ==
  /\ Len(s) >= 1
  /\ s[1] \in Letters
  /\ \A i \in 2..Len(s) : s[i] \in Letters \cup Digits \cup {"-", "_"}

\* /^[a-zA-Z][a-zA-Z0-9-]{0,100}$/.test(s)
isValidServiceName(s) ==
  /\ Len(s) >= 1
  /\ s[1] \in Letters
  /\ Len(s) - 1 <= MaxNameTail
  /\ \A i \in 2..Len(s) : s[i] \in Letters \cup Digits \cup {"-"}

\* path.join(a, b) for a directory a and a single path segment b
join(a, b) == a \o <<"/">> \o b

\* String.prototype.slice(n)
slice(s, n) == SubSeq(s, n + 1, Len(s))

Truthy(v) == v # <<>>

PACKAGE_JSON == <<"p","a","c","k","a","g","e",".","j","s","o","n">>
TEMPLATE_YML ==
  <<"s","e","r","v","e","r","l","e","s","s",".","t","e","m","p","l","a","t","e",
    ".","y","m","l">>
SERVERLESS_YML == <<"s","e","r","v","e","r","l","e","s","s",".","y","m","l">>
PROJECT_SUFFIX == <<"-","p","r","o","j","e","c","t">>
OTHER_CHOICE == <<"o","t","h","e","r">>
AWS_NODE == <<"a","w","s","-","n","o","d","e">>

\* the `value`s of initializeProjectChoices
initializeProjectChoices == {
    <<"a","w","s","-","n","o","d","e">>,
    <<"a","w","s","-","n","o","d","e","-","r","e","s","t","-","a","p","i">>,
    <<"a","w","s","-","n","o","d","e","-","s","c","h","e","d","u","l","e","d","-","c","r","o","n">>,
    <<"a","w","s","-","n","o","d","e","-","s","q","s","-","w","o","r","k","e","r">>,
    <<"a","w","s","-","n","o","d","e","-","e","x","p","r","e","s","s","-","a","p","i">>,
    <<"a","w","s","-","n","o","d","e","-","e","x","p","r","e","s","s","-","d","y","n","a","m","o","d","b","-","a","p","i">>,
    <<"a","w","s","-","p","y","t","h","o","n">>,
    <<"a","w","s","-","p","y","t","h","o","n","-","r","e","s","t","-","a","p","i">>,
    <<"a","w","s","-","p","y","t","h","o","n","-","s","c","h","e","d","u","l","e","d","-","c","r","o","n">>,
    <<"a","w","s","-","p","y","t","h","o","n","-","s","q","s","-","w","o","r","k","e","r">>,
    <<"a","w","s","-","p","y","t","h","o","n","-","f","l","a","s","k","-","a","p","i">>,
    <<"a","w","s","-","p","y","t","h","o","n","-","f","l","a","s","k","-","d","y","n","a","m","o","d","b","-","a","p","i">>,
    <<"o","t","h","e","r">> }

----------------------------------------------------------------------------
(* Errors *)

NoError == [name |-> "", code |-> "", message |-> <<>>]

\* new ServerlessError(message, code)
ServerlessError(message, code) ==
  [name |-> "ServerlessError", code |-> code, message |-> message]

INVALID_PROJECT_NAME_MESSAGE ==
  <<"Project name is not valid.", "alphanumeric and hyphens",
    "start with an alphabetic character", "Shouldn't exceed 128 characters">>

\* `Path ${name} is already taken`
AlreadyTakenMessage(name) == <<"Path ">> \o name \o <<" is already taken">>

\* what a collaborator (template copy / download, configuration helpers) may throw
CollabErrors ==
  [name : {"Error", "ServerlessError"}, code : {"ENOENT", "EOTHER"},
   message : {<<"boom">>}]

\* what the configuration helpers may throw; run() lets it propagate as it is
ConfigurationErrors ==
  [name : {"ServerlessError"}, code : {"CONFIGURATION_FAILURE"},
   message : {<<"bad configuration">>}]

\* what child-process-ext/spawn may reject with: missing binary or non-zero exit
SpawnErrors ==
  [name : {"Error"}, code : {"ENOENT", "EEXIT"}, message : {<<"npm failed">>}]

NoResult == [kind |-> "none", error |-> NoError]
Returned == [kind |-> "return", error |-> NoError]
Thrown(e) == [kind |-> "throw", error |-> e]

----------------------------------------------------------------------------
(* Inputs *)

Alphabet == {"a", "1", "-", "_", " "}

Strings(n) == UNION {[1..k -> Alphabet] : k \in 0..n}

Rep(n) == [i \in 1..n |-> "a"]

\* names at and beyond the length limit of the pattern, and the 130-character name
LongNames == {Rep(MaxNameTail + 1), Rep(MaxNameTail + 2), Rep(130)}

NameInputs == Strings(MaxNameLen) \cup LongNames

OptionKeys == {"name", "template-path", "template", "template-url"}

\* marks a key that is not in the options object
Absent == <<"absent">>

TEMPLATE_PATH_VALUE == <<"/", "t">>
TEMPLATE_URL_VALUE == <<"u">>

MkOptions(n, p, t, u) ==
  LET v == [k \in OptionKeys |->
              CASE k = "name" -> n
                [] k = "template-path" -> p
                [] k = "template" -> t
                [] k = "template-url" -> u]
  IN [k \in {kk \in OptionKeys : v[kk] # Absent} |-> v[k]]

TemplateOptionInputs ==
  {<<p, t, u>> : p \in {Absent, <<>>, TEMPLATE_PATH_VALUE},
                 t \in {Absent, <<>>, AWS_NODE},
                 u \in {Absent, <<>>, TEMPLATE_URL_VALUE}}

AllOptions ==
  {MkOptions(n, x[1], x[2], x[3]) :
     n \in NameInputs \cup {Absent}, x \in TemplateOptionInputs}

\* the picker answers explored: two templates and the "other" sentinel
ChoiceInputs ==
  {c \in initializeProjectChoices :
     c \in {AWS_NODE, <<"a","w","s","-","p","y","t","h","o","n">>, OTHER_CHOICE}}

ProcessCwd == <<"/", "p">>
ContextCwd == <<"/", "w">>
ActiveServiceDir == <<"/", "s">>
OldConfiguration == <<"old configuration">>
ParsedConfiguration == <<"parsed configuration">>
ResolvedConfiguration == <<"resolved configuration">>

InitialContexts ==
  {[cwd |-> c, serviceDir |-> Null, configurationFilename |-> Null,
    configuration |-> Null] : c \in {Null, ContextCwd}}
  \cup
  {[cwd |-> c, serviceDir |-> ActiveServiceDir,
    configurationFilename |-> SERVERLESS_YML,
    configuration |-> OldConfiguration] : c \in {Null, ContextCwd}}

----------------------------------------------------------------------------
(* Reading the context *)

\* context.options[k]; a missing key reads as undefined
Opt(k) == IF k \in DOMAIN options THEN options[k] ELSE Null

\* const workingDir = context.cwd || process.cwd()
workingDir == IF Truthy(ctx.cwd) THEN ctx.cwd ELSE ProcessCwd

\* projectDir = join(workingDir, projectName)
projectDir == join(workingDir, projectName)

\* where downloadTemplateFromRepo, given the bare projectName, puts the project
downloadDir == join(ProcessCwd, projectName)

templateOptions == {"template-path", "template", "template-url"}

notApplicableOptions == {"name", "template-path", "template", "template-url"}

\* which of the three acquisition branches of run() the options select
Branch ==
  IF Truthy(Opt("template-path")) THEN "createFromLocalTemplate"
  ELSE IF Truthy(Opt("template-url")) THEN "downloadFromUrl"
  ELSE "downloadTemplate"

\* default: projectType ? `${projectType}-project` : null
DefaultName(pt) == IF Truthy(pt) THEN pt \o PROJECT_SUFFIX ELSE Null

\* the value inquirer hands to validate and returns: empty input yields the default
Answer(input, pt) ==
  IF input = <<>> /\ DefaultName(pt) # Null THEN DefaultName(pt) ELSE input

\* the validate callback of projectNameInput: "ok", or why the input is rejected
validate(input) ==
  LET trimmed == Trim(input)
  IN IF ~isValidServiceName(trimmed) THEN "invalid"
     ELSE IF join(workingDir, trimmed) \in fs THEN "taken"
     ELSE "ok"

----------------------------------------------------------------------------
(* Pieces of run() shared by several await points *)

\* run() ends: a return or a throw
Finish(r, c) ==
  /\ pc' = "done"
  /\ result' = r
  /\ calls' = c

\* the name is resolved: the collaborator of the selected branch is called
StartAcquisition(name, c) ==
  /\ projectName' = name
  /\ pc' = Branch
  /\ calls' = c \cup {Branch}
                \cup (IF Branch = "createFromLocalTemplate" THEN {}
                      ELSE {"stdout.downloading"})
  /\ UNCHANGED result

\* variant: the explicit name is not checked against the existing paths
resolveProjectNameInputNoCollisionCheck(c) ==
  IF Truthy(Opt("name"))
  THEN IF ~isValidServiceName(Opt("name"))
       THEN /\ Finish(Thrown(ServerlessError(INVALID_PROJECT_NAME_MESSAGE,
                                             "INVALID_PROJECT_NAME")), c)
            /\ UNCHANGED projectName
       ELSE StartAcquisition(Opt("name"), c \cup {"fs.access"})
  ELSE /\ pc' = "projectNameInput"
       /\ calls' = c \cup {"prompt.projectName"}
       /\ UNCHANGED <<projectName, result>>

\* resolveProjectNameInput(options, workingDir, projectType), up to its prompt
resolveProjectNameInput(c) ==
  IF Truthy(Opt("name"))
  THEN IF ~isValidServiceName(Opt("name"))
       THEN /\ Finish(Thrown(ServerlessError(INVALID_PROJECT_NAME_MESSAGE,
                                             "INVALID_PROJECT_NAME")), c)
            /\ UNCHANGED projectName
       ELSE IF join(workingDir, Opt("name")) \in fs
       THEN /\ Finish(Thrown(ServerlessError(AlreadyTakenMessage(Opt("name")),
                                             "TARGET_FOLDER_ALREADY_EXISTS")),
                      c \cup {"fs.access"})
            /\ UNCHANGED projectName
       ELSE StartAcquisition(Opt("name"), c \cup {"fs.access"})
  ELSE /\ pc' = "projectNameInput"
       /\ calls' = c \cup {"prompt.projectName"}
       /\ UNCHANGED <<projectName, result>>

\* lines 149-188: select the branch, up to the first prompt or collaborator
SelectTemplate(c) ==
  IF Truthy(Opt("template-path")) \/ Truthy(Opt("template-url"))
  THEN /\ projectType' = Null
       /\ resolveProjectNameInput(c)
  ELSE IF Truthy(Opt("template"))
  THEN /\ projectType' = Opt("template")
       /\ resolveProjectNameInput(c)
  ELSE /\ pc' = "projectTypeChoice"
       /\ calls' = c \cup {"prompt.projectType"}
       /\ UNCHANGED <<projectType, projectName, result>>

\* lines 211-223: look for the manifest in the new project and start the install
CheckManifest(newFs, c) ==
  IF join(projectDir, PACKAGE_JSON) \in newFs
  THEN /\ pc' = "npmInstall"
       /\ calls' = c \cup {"fs.access", "stdout.installing", "spawn"}
  ELSE /\ pc' = "unlink"
       /\ calls' = c \cup {"fs.access", "fs.unlink"}

\* what a template collaborator leaves in its target directory on success
Populated(dir) ==
  {{dir} \cup {join(dir, f) : f \in files} :
     files \in SUBSET {PACKAGE_JSON, TEMPLATE_YML}}

----------------------------------------------------------------------------
(* isApplicable *)

\* variant: only options with a non-empty value count
isApplicableOutcomeByValue ==
  IF Truthy(ctx.serviceDir)
     /\ \E k \in DOMAIN options \cap notApplicableOptions : Truthy(options[k])
  THEN Thrown(ServerlessError(<<"Cannot setup a new service when being in context of another service">>,
                              "NOT_APPLICABLE_SERVICE_OPTIONS"))
  ELSE [kind |-> IF ~Truthy(ctx.serviceDir) THEN "true" ELSE "false",
        error |-> NoError]

\* isApplicable({ options, serviceDir }) (lines 103-117): a throw, or true / false
isApplicableOutcome ==
  IF Truthy(ctx.serviceDir) /\ (DOMAIN options \cap notApplicableOptions) # {}
  THEN Thrown(ServerlessError(<<"Cannot setup a new service when being in context of another service">>,
                              "NOT_APPLICABLE_SERVICE_OPTIONS"))
  ELSE [kind |-> IF ~Truthy(ctx.serviceDir) THEN "true" ELSE "false",
        error |-> NoError]

IsApplicable ==
  /\ pc = "idle"
  /\ applicable = NoResult
  /\ applicable' = isApplicableOutcome
  /\ UNCHANGED <<pc, options, ctx, fs, result, calls, projectType, projectName,
                 isConfirmed, err, atCall, prev>>

----------------------------------------------------------------------------
(* run *)

\* variant: only template-source options with a non-empty value are counted
multipleTemplateOptionsByValue ==
  Cardinality({k \in DOMAIN options \cap templateOptions : Truthy(options[k])}) > 1

\* lines 122-123: more than one template-source key among the keys of options
multipleTemplateOptions ==
  Cardinality(DOMAIN options \cap templateOptions) > 1

\* variant: the name option is not looked at
noOptionSetIgnoringName ==
  /\ ~Truthy(Opt("template-path"))
  /\ ~Truthy(Opt("template"))
  /\ ~Truthy(Opt("template-url"))

\* lines 132-137: none of the four options is set
noOptionSet ==
  /\ ~Truthy(Opt("name"))
  /\ ~Truthy(Opt("template-path"))
  /\ ~Truthy(Opt("template"))
  /\ ~Truthy(Opt("template-url"))

\* run(context) is called: lines 119-147 up to the first await
Run ==
  /\ pc = "idle"
  /\ atCall' = [ctx |-> ctx, fs |-> fs]
  /\ applicable' = NoResult
  /\ IF multipleTemplateOptions
     THEN /\ Finish(Thrown(ServerlessError(<<"You can provide only one of template options">>,
                                           "MULTIPLE_TEMPLATE_OPTIONS_PROVIDED")), {})
          /\ UNCHANGED <<projectType, projectName>>
     ELSE IF noOptionSet
     THEN /\ pc' = "shouldCreateNewProject"
          /\ calls' = {"prompt.shouldCreateNewProject"}
          /\ UNCHANGED <<projectType, projectName, result>>
     ELSE SelectTemplate({})
  /\ UNCHANGED <<options, ctx, fs, isConfirmed, err, prev>>

\* the confirmation prompt is answered (lines 138-146)
ShouldCreateNewProject(answer) ==
  /\ pc = "shouldCreateNewProject"
  /\ isConfirmed' = answer
  /\ IF answer # "Yes"
     THEN /\ Finish(Returned, calls)
          /\ UNCHANGED <<projectType, projectName>>
     ELSE SelectTemplate(calls)
  /\ UNCHANGED <<options, ctx, fs, err, applicable, atCall, prev>>

\* the template picker is answered (lines 179-188)
ProjectTypeChoice(choice) ==
  /\ pc = "projectTypeChoice"
  /\ projectType' = choice
  /\ IF choice = OTHER_CHOICE
     THEN /\ Finish(Returned, calls \cup {"stdout.otherHint"})
          /\ UNCHANGED projectName
     ELSE resolveProjectNameInput(calls)
  /\ UNCHANGED <<options, ctx, fs, isConfirmed, err, applicable, atCall, prev>>

\* the user types a name at the prompt (lines 52-73): a rejected input is asked again
ProjectNameInput(input) ==
  /\ pc = "projectNameInput"
  /\ LET answer == Answer(input, projectType)
         verdict == validate(answer)
         c == calls \cup (IF verdict = "invalid" THEN {} ELSE {"fs.access"})
     IN IF verdict # "ok"
        THEN /\ calls' = c \cup {"prompt.projectName.rejected"}
             /\ UNCHANGED <<pc, projectName, result>>
        ELSE StartAcquisition(Trim(answer), c)
  /\ UNCHANGED <<options, ctx, fs, projectType, isConfirmed, err, applicable,
                 atCall, prev>>

\* createFromLocalTemplate settles (lines 154-158): its failures propagate unchanged
CreateFromLocalTemplate ==
  /\ pc = "createFromLocalTemplate"
  /\ \/ \E newFs \in Populated(projectDir) :
          /\ fs' = fs \cup newFs
          /\ CheckManifest(fs', calls)
          /\ UNCHANGED result
     \/ \E e \in CollabErrors, partial \in SUBSET {projectDir} :
          /\ fs' = fs \cup partial
          /\ Finish(Thrown(e), calls)
  /\ UNCHANGED <<options, ctx, projectType, projectName, isConfirmed, err,
                 applicable, atCall, prev>>

\* variant: structured errors are re-thrown and all others are wrapped
urlDownloadErrorInverted(e) ==
  IF e.name = "ServerlessError" THEN e
  ELSE ServerlessError(<<"Could not download template from provided url: ">>
                         \o e.message, "INVALID_TEMPLATE_URL")

\* the catch block of the template-url branch (lines 166-173)
urlDownloadError(e) ==
  IF e.name # "ServerlessError" THEN e
  ELSE ServerlessError(<<"Could not download template from provided url: ">>
                         \o e.message, "INVALID_TEMPLATE_URL")

\* downloadTemplateFromRepo(templateUrl, null, projectName) settles (lines 164-173)
DownloadFromUrl ==
  /\ pc = "downloadFromUrl"
  /\ \/ \E newFs \in Populated(downloadDir) :
          /\ fs' = fs \cup newFs
          /\ CheckManifest(fs', calls)
          /\ UNCHANGED <<result, err>>
     \/ \E e \in CollabErrors, partial \in SUBSET {downloadDir} :
          /\ fs' = fs \cup partial
          /\ err' = e
          /\ Finish(Thrown(urlDownloadError(e)), calls)
  /\ UNCHANGED <<options, ctx, projectType, projectName, isConfirmed, applicable,
                 atCall, prev>>

\* variant: structured errors are re-thrown and all others are wrapped
templateDownloadErrorInverted(e) ==
  IF e.code = "ENOENT" /\ Truthy(Opt("template"))
  THEN ServerlessError(<<"Could not find provided template.">>, "INVALID_TEMPLATE")
  ELSE IF e.name = "ServerlessError" THEN e
  ELSE ServerlessError(<<"Could not download template: ">> \o e.message,
                       "TEMPLATE_DOWNLOAD_FAILED")

\* the catch block of the named-template branch (lines 194-208)
templateDownloadError(e) ==
  IF e.code = "ENOENT" /\ Truthy(Opt("template"))
  THEN ServerlessError(<<"Could not find provided template.">>, "INVALID_TEMPLATE")
  ELSE IF e.name # "ServerlessError" THEN e
  ELSE ServerlessError(<<"Could not download template: ">> \o e.message,
                       "TEMPLATE_DOWNLOAD_FAILED")

\* downloadTemplateFromRepo(templateUrl, projectType, projectName) settles (192-208)
DownloadTemplate ==
  /\ pc = "downloadTemplate"
  /\ \/ \E newFs \in Populated(downloadDir) :
          /\ fs' = fs \cup newFs
          /\ CheckManifest(fs', calls)
          /\ UNCHANGED <<result, err>>
     \/ \E e \in CollabErrors, partial \in SUBSET {downloadDir} :
          /\ fs' = fs \cup partial
          /\ err' = e
          /\ Finish(Thrown(templateDownloadError(e)), calls)
  /\ UNCHANGED <<options, ctx, projectType, projectName, isConfirmed, applicable,
                 atCall, prev>>

\* variant: a missing npm binary is fatal too
installErrorAlwaysFatal(e) ==
  Thrown(ServerlessError(<<"Cannot install dependencies: ">> \o e.message,
                         "DEPENDENCIES_INSTALL_FAILED"))

\* the catch block around spawn (lines 224-237): nothing (only a warning), or the
\* error run() throws
installError(e) ==
  IF e.code = "ENOENT" THEN NoResult
  ELSE Thrown(ServerlessError(<<"Cannot install dependencies: ">> \o e.message,
                              "DEPENDENCIES_INSTALL_FAILED"))

\* spawn(npmCommand, ['install'], { cwd: projectDir }) settles (lines 222-238)
NpmInstall ==
  /\ pc = "npmInstall"
  /\ \/ /\ pc' = "unlink"
        /\ calls' = calls \cup {"fs.unlink"}
        /\ UNCHANGED <<result, err>>
     \/ \E e \in SpawnErrors :
          /\ err' = e
          /\ IF installError(e) = NoResult
             THEN /\ pc' = "unlink"
                  /\ calls' = calls \cup {"stdout.npmMissingWarning", "fs.unlink"}
                  /\ UNCHANGED result
             ELSE Finish(installError(e), calls)
  /\ UNCHANGED <<options, ctx, fs, projectType, projectName, isConfirmed,
                 applicable, atCall, prev>>

\* variant: the configuration filename is written together with serviceDir
setServiceDirWithFilename(c) ==
  [c EXCEPT !.serviceDir = projectDir, !.configurationFilename = SERVERLESS_YML]

\* context.serviceDir = projectDir (line 250)
setServiceDir(c) == [c EXCEPT !.serviceDir = projectDir]

\* fsp.unlink of the marker file settles (its failure is swallowed), then
\* lines 247-251 up to the next await
Unlink ==
  /\ pc = "unlink"
  /\ \E removed \in SUBSET ({join(projectDir, TEMPLATE_YML)} \cap fs) :
       fs' = fs \ removed
  /\ ctx' = setServiceDir(ctx)
  /\ pc' = "resolveConfigurationPath"
  /\ calls' = calls \cup {"stdout.success", "resolveConfigurationPath"}
  /\ UNCHANGED <<options, result, projectType, projectName, isConfirmed, err,
                 applicable, atCall, prev>>

\* the configuration files resolveConfigurationPath may find in the project
ConfigurationFilenames == {SERVERLESS_YML, <<"s", ".", "j", "s">>}

\* configurationPath.slice(projectDir.length + 1) (line 252)
configurationFilename(configurationPath) ==
  slice(configurationPath, Len(projectDir) + 1)

\* resolveConfigurationPath settles (lines 251-253)
ResolveConfigurationPath ==
  /\ pc = "resolveConfigurationPath"
  /\ \/ \E f \in ConfigurationFilenames :
          /\ ctx' = [ctx EXCEPT !.configurationFilename =
                                   configurationFilename(join(projectDir, f))]
          /\ pc' = "readConfiguration"
          /\ calls' = calls \cup {"readConfiguration"}
          /\ UNCHANGED result
     \/ \E e \in ConfigurationErrors :
          /\ Finish(Thrown(e), calls)
          /\ UNCHANGED ctx
  /\ UNCHANGED <<options, fs, projectType, projectName, isConfirmed, err,
                 applicable, atCall, prev>>

\* readConfiguration settles (lines 253-254)
ReadConfiguration ==
  /\ pc = "readConfiguration"
  /\ \/ /\ ctx' = [ctx EXCEPT !.configuration = ParsedConfiguration]
        /\ pc' = "resolveVariables"
        /\ calls' = calls \cup {"resolveVariables"}
        /\ UNCHANGED result
     \/ \E e \in ConfigurationErrors :
          /\ Finish(Thrown(e), calls)
          /\ UNCHANGED ctx
  /\ UNCHANGED <<options, fs, projectType, projectName, isConfirmed, err,
                 applicable, atCall, prev>>

\* resolveVariables(context) settles (lines 254-255): it resolves the
\* configuration in place (a failure may come after part of that); run() returns
ResolveVariables ==
  /\ pc = "resolveVariables"
  /\ \/ /\ ctx' = [ctx EXCEPT !.configuration = ResolvedConfiguration]
        /\ Finish(Returned, calls)
     \/ \E e \in ConfigurationErrors,
           c \in {ParsedConfiguration, ResolvedConfiguration} :
          /\ ctx' = [ctx EXCEPT !.configuration = c]
          /\ Finish(Thrown(e), calls)
  /\ UNCHANGED <<options, fs, projectType, projectName, isConfirmed, err,
                 applicable, atCall, prev>>

----------------------------------------------------------------------------
(* The session *)

NoPrev == [ran |-> FALSE, name |-> Null, created |-> FALSE]

\* after a run with an explicit name that created a project, run() is called
\* again with the same name and working directory and any template-source options
Reinvoke ==
  /\ pc = "done"
  /\ result = Returned
  /\ Truthy(projectName)
  /\ Truthy(Opt("name"))
  /\ prev = NoPrev
  /\ \E x \in TemplateOptionInputs :
       options' = MkOptions(IF "name" \in DOMAIN options THEN options["name"]
                            ELSE Absent, x[1], x[2], x[3])
  /\ prev' = [ran |-> TRUE, name |-> Opt("name"), created |-> projectDir \in fs]
  /\ pc' = "idle"
  /\ result' = NoResult
  /\ calls' = {}
  /\ projectType' = Null
  /\ projectName' = Null
  /\ isConfirmed' = Null
  /\ err' = NoError
  /\ UNCHANGED <<ctx, fs, applicable, atCall>>

\* a path that may already exist under the working directory
PreExistingName == <<"a">>

Init ==
  /\ pc = "idle"
  /\ options \in AllOptions
  /\ ctx \in InitialContexts
  /\ fs \in SUBSET {join(workingDir, PreExistingName)}
  /\ result = NoResult
  /\ calls = {}
  /\ projectType = Null
  /\ projectName = Null
  /\ isConfirmed = Null
  /\ err = NoError
  /\ applicable = NoResult
  /\ atCall = [ctx |-> ctx, fs |-> fs]
  /\ prev = NoPrev

Next ==
  \/ IsApplicable
  \/ Run
  \/ \E answer \in {"Yes", "No"} : ShouldCreateNewProject(answer)
  \/ \E choice \in ChoiceInputs : ProjectTypeChoice(choice)
  \/ \E input \in NameInputs : ProjectNameInput(input)
  \/ CreateFromLocalTemplate
  \/ DownloadFromUrl
  \/ DownloadTemplate
  \/ NpmInstall
  \/ Unlink
  \/ ResolveConfigurationPath
  \/ ReadConfiguration
  \/ ResolveVariables
  \/ Reinvoke

Spec == Init /\ [][Next]_vars

----------------------------------------------------------------------------
(* Vocabulary of the properties *)

\* the naming pattern ^[A-Za-z][A-Za-z0-9-]{0,100}$ as the specification words it
MatchesNamePattern(s) ==
  /\ s # <<>>
  /\ Head(s) \in Letters
  /\ Len(Tail(s)) \in 0..100
  /\ \A i \in 1..Len(Tail(s)) : Tail(s)[i] \in Letters \cup Digits \cup {"-"}

\* msg includes part
Includes(msg, part) ==
  \E i \in 1..(Len(msg) - Len(part) + 1) :
     SubSeq(msg, i, i + Len(part) - 1) = part

TemplateKeysGiven ==
  DOMAIN options \cap {"template-path", "template", "template-url"}

ExactlyOneTemplateSource ==
  /\ Cardinality(TemplateKeysGiven) = 1
  /\ \A k \in TemplateKeysGiven : options[k] # <<>>

ExplicitName == "name" \in DOMAIN options /\ options["name"] # <<>>

TemplateCollaborators ==
  {"createFromLocalTemplate", "downloadFromUrl", "downloadTemplate"}

NoTemplateCollaborator == calls \cap TemplateCollaborators = {}

ThrewKind(code) ==
  /\ result.kind = "throw"
  /\ result.error.name = "ServerlessError"
  /\ result.error.code = code

\* the user selected `other` at the template picker
PickedOther == "prompt.projectType" \in calls /\ projectType = OTHER_CHOICE

\* the catch block of the url / named-template download has run
UrlDownloadFailed ==
  pc = "done" /\ "downloadFromUrl" \in calls /\ "spawn" \notin calls /\ err # NoError

TemplateDownloadFailed ==
  pc = "done" /\ "downloadTemplate" \in calls /\ "spawn" \notin calls /\ err # NoError

\* the template has been materialized and the manifest looked for
Materialized == "spawn" \in calls \/ "fs.unlink" \in calls

ContextPopulated ==
  /\ ctx.serviceDir = projectDir
  /\ ctx.configurationFilename \in ConfigurationFilenames
  /\ ctx.configuration = ResolvedConfiguration

----------------------------------------------------------------------------
(* C1 *)

\* C1: whenever the options hold two or more of the keys template-path, template,
\* template-url, run() ends at once by throwing MULTIPLE_TEMPLATE_OPTIONS_PROVIDED,
\* having shown no prompt, made no filesystem check, called no collaborator, and
\* with the filesystem and the session context as they were at the call.
C1_MultipleTemplateOptionsFailBeforeIO ==
  (pc # "idle" /\ Cardinality(TemplateKeysGiven) >= 2) =>
     /\ pc = "done"
     /\ ThrewKind("MULTIPLE_TEMPLATE_OPTIONS_PROVIDED")
     /\ calls = {}
     /\ fs = atCall.fs
     /\ ctx = atCall.ctx

\* two template-source keys, one of them with an empty value, were rejected
C1_Witness ==
  /\ pc = "done"
  /\ Cardinality(TemplateKeysGiven) = 2
  /\ \E k \in TemplateKeysGiven : options[k] = <<>>
  /\ ThrewKind("MULTIPLE_TEMPLATE_OPTIONS_PROVIDED")

----------------------------------------------------------------------------
(* C2 *)

\* C2 as stated (with one template source given, so that nothing precedes the
\* naming step): every explicit name option that does not match the naming
\* pattern, the empty string included, makes run() throw INVALID_PROJECT_NAME
\* with no template collaborator invoked and no directory created.
C2_InvalidExplicitNameFails ==
  (/\ pc = "done"
   /\ "name" \in DOMAIN options
   /\ ~MatchesNamePattern(options["name"])
   /\ ExactlyOneTemplateSource) =>
     /\ ThrewKind("INVALID_PROJECT_NAME")
     /\ NoTemplateCollaborator
     /\ fs = atCall.fs

\* C2 amended: a non-empty explicit name that does not match the pattern never
\* reaches the name prompt, a template collaborator or the filesystem; the run
\* stops at the template picker or ends, and it ends with INVALID_PROJECT_NAME
\* when at most one template-source key is given and the user did not pick
\* `other` at the picker.
C2_NonEmptyInvalidExplicitNameFails ==
  (pc # "idle" /\ ExplicitName /\ ~MatchesNamePattern(options["name"])) =>
     /\ pc \in {"projectTypeChoice", "done"}
     /\ NoTemplateCollaborator
     /\ "prompt.projectName" \notin calls
     /\ fs = atCall.fs
     /\ (pc = "done" /\ Cardinality(TemplateKeysGiven) <= 1 /\ ~PickedOther)
          => ThrewKind("INVALID_PROJECT_NAME")

\* the 130-character name was rejected with INVALID_PROJECT_NAME
C2_Witness ==
  /\ pc = "done"
  /\ ExplicitName
  /\ Len(options["name"]) = 130
  /\ ExactlyOneTemplateSource
  /\ ThrewKind("INVALID_PROJECT_NAME")

----------------------------------------------------------------------------
(* C3 *)

\* C3 as stated (for options that pass the template-option check): an explicit,
\* pattern-valid name whose path exists under the working directory when run()
\* is called makes run() throw TARGET_FOLDER_ALREADY_EXISTS, with no template
\* collaborator invoked and the filesystem untouched.
C3_ExistingTargetFails ==
  (/\ pc = "done"
   /\ ExplicitName
   /\ MatchesNamePattern(options["name"])
   /\ join(workingDir, options["name"]) \in atCall.fs
   /\ Cardinality(TemplateKeysGiven) <= 1) =>
     /\ ThrewKind("TARGET_FOLDER_ALREADY_EXISTS")
     /\ NoTemplateCollaborator
     /\ fs = atCall.fs

\* C3 amended: with such a name no template collaborator is invoked and the
\* filesystem is untouched; the run stops at the template picker or ends, and it
\* ends with TARGET_FOLDER_ALREADY_EXISTS when at most one template-source key is
\* given and the user did not pick `other`.  So a second run with the same
\* explicit name, after a first one that succeeded and created the directory
\* under the working directory, ends that way under the same two conditions.
C3_ExistingTargetFailsUnlessPreempted ==
  /\ (/\ pc # "idle"
      /\ ExplicitName
      /\ MatchesNamePattern(options["name"])
      /\ join(workingDir, options["name"]) \in atCall.fs) =>
        /\ pc \in {"projectTypeChoice", "done"}
        /\ NoTemplateCollaborator
        /\ fs = atCall.fs
        /\ (pc = "done" /\ Cardinality(TemplateKeysGiven) <= 1 /\ ~PickedOther)
             => ThrewKind("TARGET_FOLDER_ALREADY_EXISTS")
  /\ (/\ pc = "done"
      /\ prev.ran
      /\ prev.created
      /\ ExplicitName
      /\ options["name"] = prev.name
      /\ Cardinality(TemplateKeysGiven) <= 1
      /\ ~PickedOther) =>
        ThrewKind("TARGET_FOLDER_ALREADY_EXISTS")

\* the second of two runs with the same explicit name failed on the directory
\* the first one created
C3_Witness ==
  /\ pc = "done"
  /\ prev.ran
  /\ prev.created
  /\ options["name"] = prev.name
  /\ join(workingDir, options["name"]) \in atCall.fs
  /\ ThrewKind("TARGET_FOLDER_ALREADY_EXISTS")

----------------------------------------------------------------------------
(* C4 *)

----------------------------------------------------------------------------
(* C5 *)

----------------------------------------------------------------------------
(* C6 *)

\* the run ended by an error, or by a cancel (a return before any project)
EndedWithoutSuccess ==
  /\ pc = "done"
  /\ \/ result.kind = "throw"
     \/ result = Returned /\ "stdout.success" \notin calls

\* C6 as stated: in every run that ends by raising an error at any step, or by an
\* early cancel return, the context fields serviceDir, configurationFilename and
\* configuration all keep the values they had before the call.
C6_ContextWrittenOnlyOnSuccess ==
  EndedWithoutSuccess =>
     /\ ctx.serviceDir = atCall.ctx.serviceDir
     /\ ctx.configurationFilename = atCall.ctx.configurationFilename
     /\ ctx.configuration = atCall.ctx.configuration

\* C6 amended: the context keeps its values in every run that ends by a cancel or
\* by an error raised before finalization (validation, template acquisition,
\* dependency install).  Finalization writes the fields one at a time: an error of
\* the configuration-path resolution leaves serviceDir set to the project
\* directory and the two other fields as before the call; an error of the
\* configuration read leaves serviceDir and configurationFilename set and
\* configuration as before the call; an error of the variable resolution leaves
\* all three set by this run.
C6_ContextWrittenStepwise ==
  EndedWithoutSuccess =>
     /\ ctx.cwd = atCall.ctx.cwd
     /\ "resolveConfigurationPath" \notin calls => ctx = atCall.ctx
     /\ ("resolveConfigurationPath" \in calls /\ "readConfiguration" \notin calls) =>
          /\ result.kind = "throw"
          /\ ctx.serviceDir = projectDir
          /\ ctx.configurationFilename = atCall.ctx.configurationFilename
          /\ ctx.configuration = atCall.ctx.configuration
     /\ ("readConfiguration" \in calls /\ "resolveVariables" \notin calls) =>
          /\ result.kind = "throw"
          /\ ctx.serviceDir = projectDir
          /\ ctx.configurationFilename \in ConfigurationFilenames
          /\ ctx.configuration = atCall.ctx.configuration
     /\ "resolveVariables" \in calls =>
          /\ result.kind = "throw"
          /\ ctx.serviceDir = projectDir
          /\ ctx.configurationFilename \in ConfigurationFilenames
          /\ ctx.configuration \in {ParsedConfiguration, ResolvedConfiguration}

\* the configuration-path resolution failed in a context that had no service:
\* serviceDir is set by this run, configurationFilename and configuration are not
C6_Witness ==
  /\ pc = "done"
  /\ result.kind = "throw"
  /\ "resolveConfigurationPath" \in calls
  /\ "readConfiguration" \notin calls
  /\ atCall.ctx.serviceDir = Null
  /\ ctx.serviceDir = projectDir
  /\ ctx.configurationFilename = Null
  /\ ctx.configuration = Null

----------------------------------------------------------------------------
(* C7 *)

\* the install was attempted and the package-manager binary was missing
InstallBinaryMissing == "spawn" \in calls /\ err.code = "ENOENT"

\* the install was attempted and failed for another reason
InstallFailedOtherwise ==
  "spawn" \in calls /\ err # NoError /\ err.code # "ENOENT"

\* the parts of C7 about a project without manifest and about an install that
\* fails for a reason other than a missing binary
C7_NoManifestAndFatalFailure ==
  /\ (pc # "idle" /\ Materialized) =>
        ("spawn" \in calls <=> join(projectDir, PACKAGE_JSON) \in fs)
  /\ (pc # "idle" /\ InstallFailedOtherwise) =>
        /\ pc = "done"
        /\ ThrewKind("DEPENDENCIES_INSTALL_FAILED")
        /\ Includes(result.error.message, err.message)
        /\ "stdout.success" \notin calls
        /\ ctx = atCall.ctx

----------------------------------------------------------------------------
(* C8 *)

\* C8: when the user answers anything but "Yes" at the confirmation prompt, or
\* selects `other` at the template picker, run() returns without raising, having
\* shown no name prompt, invoked no template collaborator and no install, created
\* no directory and left the context unchanged; and the confirmation prompt is
\* shown only when none of name, template-path, template, template-url is set.
C8_CancelIsCleanNoOp ==
  /\ ((isConfirmed \notin {Null, "Yes"}) \/ PickedOther) =>
        /\ pc = "done"
        /\ result = Returned
        /\ "prompt.projectName" \notin calls
        /\ NoTemplateCollaborator
        /\ "spawn" \notin calls
        /\ fs = atCall.fs
        /\ ctx = atCall.ctx
  /\ "prompt.shouldCreateNewProject" \in calls =>
        \A k \in DOMAIN options : options[k] = <<>>

\* `other` was selected in a run that had an explicit name: a clean return
C8_Witness ==
  /\ pc = "done"
  /\ PickedOther
  /\ ExplicitName
  /\ "prompt.shouldCreateNewProject" \notin calls
  /\ result = Returned

----------------------------------------------------------------------------
(* C9 *)

\* C9, its half about the explicit option: an explicit name that is valid and
\* free once its surrounding whitespace is trimmed is accepted (never rejected
\* with INVALID_PROJECT_NAME), and a run that succeeds created the project under
\* the trimmed name.
C9_ExplicitNameIsTrimmed ==
  (/\ pc = "done"
   /\ ExplicitName
   /\ MatchesNamePattern(Trim(options["name"]))
   /\ join(workingDir, Trim(options["name"])) \notin atCall.fs
   /\ ExactlyOneTemplateSource) =>
     /\ ~ThrewKind("INVALID_PROJECT_NAME")
     /\ result = Returned => projectName = Trim(options["name"])

----------------------------------------------------------------------------
(* C10 *)

\* what C10 says isApplicable does with the present options and context
C10_Expected ==
  IF ctx.serviceDir # Null
     /\ \E k \in DOMAIN options :
          k \in {"name", "template-path", "template", "template-url"}
  THEN /\ applicable.kind = "throw"
       /\ applicable.error.name = "ServerlessError"
       /\ applicable.error.code = "NOT_APPLICABLE_SERVICE_OPTIONS"
  ELSE /\ applicable.kind = (IF ctx.serviceDir = Null THEN "true" ELSE "false")
       /\ applicable.error = NoError

\* C10: isApplicable throws NOT_APPLICABLE_SERVICE_OPTIONS when the options hold
\* any of the keys name, template-path, template, template-url while a service
\* directory is active; otherwise it throws nothing and returns true exactly when
\* no service directory is active; and it changes neither context nor options.
C10_IsApplicable ==
  /\ [](applicable # NoResult => C10_Expected)
  /\ [][(applicable = NoResult /\ applicable' # NoResult) =>
           (ctx' = ctx /\ options' = options /\ fs' = fs)]_vars

\* isApplicable threw for options whose only keys have empty values
C10_Witness ==
  /\ applicable.kind = "throw"
  /\ DOMAIN options # {}
  /\ \A k \in DOMAIN options : options[k] = <<>>

====
